---- MODULE Spec2Model ----
(***************************************************************************)
(* A model of Publications/parse_bib.py: the BibTeX entry parser with      *)
(* title de-duplication, the year extraction, the venue classifiers, the   *)
(* author formatter and the year-grouped, numbered HTML renderer.          *)
(*                                                                         *)
(* Text is a sequence of one-character strings.  The accented letters the  *)
(* author formatter produces, and the grave accent character, are written  *)
(* by code point ("U+00E4", "U+0060").                                     *)
(***************************************************************************)
EXTENDS Integers, Sequences, FiniteSets, TLC

VARIABLES
  source,            \* the entries the .bib file was written from
  content,           \* f.read(): the text of the .bib file
  pc,                \* position of the script
  pos,               \* re.finditer: where the next search starts (1-based)
  entries,           \* parse_bibtex: the list returned
  seen_titles,       \* parse_bibtex: the set of normalized titles
  duplicates_count,  \* parse_bibtex: number of entries dropped
  matched,           \* log of every regex match: [type, key, fields, kept]
  by_year,           \* generate_publication_list: year -> list of entries
  gi,                \* generate_publication_list: index of the grouping loop
  sorted_years,      \* generate_publication_list: the years, descending
  yi,                \* generate_publication_list: index of the render loop
  total_pubs,        \* generate_publication_list
  current_number,    \* generate_publication_list
  html,              \* generate_publication_list: the output, as elements
  arg,               \* the argument of a function applied on its own
  res,               \* its result
  calls              \* how many times it has been applied

vars == <<source, content, pc, pos, entries, seen_titles, duplicates_count, matched,
          by_year, gi, sorted_years, yi, total_pubs, current_number, html,
          arg, res, calls>>

parseVars == <<source, content, pos, entries, seen_titles, duplicates_count, matched>>
renderVars == <<by_year, gi, sorted_years, yi, total_pubs, current_number, html>>
callVars == <<arg, res, calls>>

-----------------------------------------------------------------------------
(* Characters and strings                                                   *)

LowerLetters ==
  <<"a","b","c","d","e","f","g","h","i","j","k","l","m",
    "n","o","p","q","r","s","t","u","v","w","x","y","z",
    "U+00E4","U+00F6","U+00FC","U+00E9","U+00E1","U+00ED","U+00F3","U+00FA",
    "U+00E8","U+00E0","U+00EC","U+00F2","U+00F9","U+00EA","U+00E2","U+00EE",
    "U+00F4","U+00FB","U+00F1","U+00F5","U+00E7">>

UpperLetters ==
  <<"A","B","C","D","E","F","G","H","I","J","K","L","M",
    "N","O","P","Q","R","S","T","U","V","W","X","Y","Z",
    "U+00C4","U+00D6","U+00DC","U+00C9","U+00C1","U+00CD","U+00D3","U+00DA",
    "U+00C8","U+00C0","U+00CC","U+00D2","U+00D9","U+00CA","U+00C2","U+00CE",
    "U+00D4","U+00DB","U+00D1","U+00D5","U+00C7">>

Digits == <<"0","1","2","3","4","5","6","7","8","9">>

Range(f) == {f[i] : i \in DOMAIN f}

DigitChars == Range(Digits)

IsDigit(c) == c \in DigitChars

WordChars ==
  Range(LowerLetters) \cup Range(UpperLetters) \cup Range(Digits)
    \cup {"_", "U+00DF"}

\* the characters \w matches
IsWord(c) == c \in WordChars

\* the characters \s and str.strip() take for whitespace
IsSpace(c) == c \in {" ", "\n", "\t", "\r"}

Sub(s, a, b) == IF a > b THEN <<>> ELSE SubSeq(s, a, b)

\* s[i:] starts with p  (i is 1-based)
StartsAt(s, i, p) ==
  /\ i >= 1
  /\ i + Len(p) - 1 <= Len(s)
  /\ \A k \in 1..Len(p) : s[i + k - 1] = p[k]

\* p in s
Contains(s, p) == \E i \in 1..(Len(s) + 1) : StartsAt(s, i, p)

s_closer == <<"\n", "}">>

\* first index >= i that holds no word character (Len(s)+1 when none)
WordEnd(s, i) ==
  CHOOSE j \in i..(Len(s) + 1) :
    (j > Len(s) \/ ~IsWord(s[j])) /\ \A k \in i..(j - 1) : IsWord(s[k])

\* first index >= i that holds no whitespace (Len(s)+1 when none)
SpaceEnd(s, i) ==
  CHOOSE j \in i..(Len(s) + 1) :
    (j > Len(s) \/ ~IsSpace(s[j])) /\ \A k \in i..(j - 1) : IsSpace(s[k])

\* last index <= i that holds no whitespace (0 when none)
SpaceStart(s, i) ==
  CHOOSE j \in 0..i :
    (j < 1 \/ ~IsSpace(s[j])) /\ \A k \in (j + 1)..i : IsSpace(s[k])

\* first index >= i that holds character c (Len(s)+1 when none)
IndexFrom(s, i, c) ==
  CHOOSE j \in i..(Len(s) + 1) :
    (j > Len(s) \/ s[j] = c) /\ \A k \in i..(j - 1) : s[k] # c

\* first index >= i at which p starts (Len(s)+1 when none)
Find(s, i, p) ==
  CHOOSE j \in i..(Len(s) + 1) :
    (j > Len(s) \/ StartsAt(s, j, p)) /\ \A k \in i..(j - 1) : ~StartsAt(s, k, p)

\* str.strip()
Strip(s) == Sub(s, SpaceEnd(s, 1), SpaceStart(s, Len(s)))

UpperChars == Range(UpperLetters)

LowerOf == [c \in UpperChars |->
              LowerLetters[CHOOSE i \in DOMAIN UpperLetters : UpperLetters[i] = c]]

LowerChar(c) == IF c \in UpperChars THEN LowerOf[c] ELSE c

\* str.lower()
Lower(s) == [i \in 1..Len(s) |-> LowerChar(s[i])]

\* s.replace('{', '').replace('}', '')
RemoveBraces(s) == SelectSeq(s, LAMBDA c : c \notin {"{", "}"})

\* str.split('\n')
RECURSIVE SplitLines(_)
SplitLines(s) ==
  LET n == IndexFrom(s, 1, "\n")
  IN  IF n > Len(s) THEN <<s>>
      ELSE <<Sub(s, 1, n - 1)>> \o SplitLines(Sub(s, n + 1, Len(s)))

\* sequence concatenation of a sequence of strings
RECURSIVE Concat(_)
Concat(ss) == IF ss = <<>> THEN <<>> ELSE Head(ss) \o Concat(Tail(ss))

-----------------------------------------------------------------------------
(* Field names and literals of the script                                   *)

s_title == <<"t","i","t","l","e">>
s_author == <<"a","u","t","h","o","r">>
s_year == <<"y","e","a","r">>
s_journal == <<"j","o","u","r","n","a","l">>
s_booktitle == <<"b","o","o","k","t","i","t","l","e">>
s_article == <<"a","r","t","i","c","l","e">>
s_inproceedings == <<"i","n","p","r","o","c","e","e","d","i","n","g","s">>
s_misc == <<"m","i","s","c">>
s_0000 == <<"0","0","0","0">>
s_NoTitle == <<"N","o"," ","t","i","t","l","e">>

\* dict.get(name, default)
Get(fields, name, default) ==
  IF name \in DOMAIN fields THEN fields[name] ELSE default

\* fields[name] = value
Put(fields, name, value) ==
  [n \in (DOMAIN fields) \cup {name} |-> IF n = name THEN value ELSE fields[n]]

EmptyFields == [n \in {} |-> <<>>]

-----------------------------------------------------------------------------
(* parse_bibtex: the entry pattern  @(\w+)\{([^,]+),\s*(.*?)\n\}  (DOTALL)   *)

NoMatch == [ok |-> FALSE]

\* the match of the pattern that starts at index s of text c, if there is one
MatchAt(c, s) ==
  IF ~(s <= Len(c) /\ c[s] = "@") THEN NoMatch
  ELSE
    LET t == WordEnd(c, s + 1) IN          \* (\w+) is c[s+1 .. t-1]
    IF t = s + 1 \/ t > Len(c) \/ c[t] # "{" THEN NoMatch
    ELSE
      LET k == IndexFrom(c, t + 1, ",") IN   \* ([^,]+) is c[t+1 .. k-1]
      IF k = t + 1 \/ k > Len(c) THEN NoMatch
      ELSE
        LET w == SpaceEnd(c, k + 1)            \* \s* takes c[k+1 .. w-1]
            q == Find(c, w, s_closer)          \* (.*?) stops at the first \n}
        IN  IF q <= Len(c)
            THEN     [ok |-> TRUE, type |-> Sub(c, s + 1, t - 1),
                      key |-> Sub(c, t + 1, k - 1),
                      body |-> Sub(c, w, q - 1), end |-> q + 2]
            ELSE IF w - 1 >= k + 1 /\ w <= Len(c) /\ c[w - 1] = "\n" /\ c[w] = "}"
            THEN [ok |-> TRUE, type |-> Sub(c, s + 1, t - 1),    \* \s* gives
                  key |-> Sub(c, t + 1, k - 1),                  \* back the \n
                  body |-> <<>>, end |-> w + 1]
            ELSE NoMatch

\* re.finditer: the first match that starts at index p or later
NextMatch(c, p) ==
  IF \E s \in p..Len(c) : MatchAt(c, s).ok
  THEN MatchAt(c, CHOOSE s \in p..Len(c) :
                    MatchAt(c, s).ok /\ \A r \in p..(s - 1) : ~MatchAt(c, r).ok)
  ELSE NoMatch

-----------------------------------------------------------------------------
(* parse_bibtex: the fields of one line                                     *)

\* a scanner that does not track the depth: it stops at the first closing brace
ScanBracesFlat(line, i, brace_count) ==
  LET j == IndexFrom(line, i, "}")
  IN  IF j <= Len(line) THEN [i |-> j + 1, brace_count |-> 0]
      ELSE [i |-> j, brace_count |-> brace_count]

\* the while loop of the brace scanner; i is 1-based
RECURSIVE ScanBraces(_, _, _)
ScanBraces(line, i, brace_count) ==
  IF i <= Len(line) /\ brace_count > 0
  THEN ScanBraces(line, i + 1,
                  IF line[i] = "{" THEN brace_count + 1
                  ELSE IF line[i] = "}" THEN brace_count - 1
                  ELSE brace_count)
  ELSE [i |-> i, brace_count |-> brace_count]

\* re.match(r'(\w+)\s*=\s*\{', line) / re.match(r'(\w+)\s*=\s*"', line):
\* the index of the opening delimiter, 0 when the line does not match
FieldOpen(line, open) ==
  LET n == WordEnd(line, 1)
      e == SpaceEnd(line, n)
  IN  IF n = 1 \/ e > Len(line) \/ line[e] # "=" THEN 0
      ELSE LET o == SpaceEnd(line, e + 1)
           IN  IF o <= Len(line) /\ line[o] = open THEN o ELSE 0

\* lines 26-54: one line of the entry body applied to the field map
ParseLine(fields, raw) ==
  LET line == Strip(raw) IN
  IF line = <<>> \/ line[1] = "%" THEN fields
  ELSE IF FieldOpen(line, "{") # 0
  THEN LET field_name == Sub(line, 1, WordEnd(line, 1) - 1)
           value_start == IndexFrom(line, 1, "{") + 1
           sc == ScanBraces(line, value_start, 1)
       IN  IF sc.brace_count = 0
           THEN Put(fields, field_name, Sub(line, value_start, sc.i - 2))
           ELSE fields
  ELSE IF FieldOpen(line, "\"") # 0
  THEN LET o == FieldOpen(line, "\"")
           q == IndexFrom(line, o + 1, "\"")
       IN  IF q <= Len(line)
           THEN Put(fields, Sub(line, 1, WordEnd(line, 1) - 1), Sub(line, o + 1, q - 1))
           ELSE fields
  ELSE fields

RECURSIVE ParseLines(_, _)
ParseLines(fields, lines) ==
  IF lines = <<>> THEN fields
  ELSE ParseLines(ParseLine(fields, Head(lines)), Tail(lines))

\* lines 23-54: the field map of an entry body
ParseFields(entry_content) == ParseLines(EmptyFields, SplitLines(entry_content))

\* line 57: the de-duplication key
NormTitle(fields) == RemoveBraces(Lower(Strip(Get(fields, s_title, <<>>))))

-----------------------------------------------------------------------------
(* extract_year                                                             *)

DigitVal(c) == (CHOOSE i \in 1..10 : Digits[i] = c) - 1

RECURSIVE DigitsValue(_)
DigitsValue(s) ==
  IF s = <<>> THEN 0
  ELSE LET c == s[Len(s)]
           rest == DigitsValue(Sub(s, 1, Len(s) - 1))
       IN  IF c = "_" THEN rest ELSE 10 * rest + DigitVal(c)

\* int(year): surrounding whitespace, a sign, digits with single underscores
\* between them; anything else raises ValueError
IntParse(str) ==
  LET t == Strip(str)
      signed == t # <<>> /\ t[1] \in {"+", "-"}
      body == IF signed THEN Tail(t) ELSE t
      valid == /\ body # <<>>
               /\ \A i \in 1..Len(body) :
                    \/ IsDigit(body[i])
                    \/ /\ body[i] = "_"
                       /\ 1 < i /\ i < Len(body)
                       /\ IsDigit(body[i - 1]) /\ IsDigit(body[i + 1])
  IN  IF ~valid THEN [ok |-> FALSE, value |-> 0]
      ELSE [ok |-> TRUE,
            value |-> IF signed /\ t[1] = "-" THEN 0 - DigitsValue(body)
                      ELSE DigitsValue(body)]

MalformedYear == 1804
CorrectedYear == 2018

\* the year as written, without the fix-up of lines 82-83
extract_year_literal(entry) ==
  LET p == IntParse(Get(entry.fields, s_year, s_0000))
  IN  IF ~p.ok THEN 0 ELSE p.value

\* lines 76-86
extract_year(entry) ==
  LET year == Get(entry.fields, s_year, s_0000)
      p == IntParse(year)
  IN  IF ~p.ok THEN 0
      ELSE IF p.value = MalformedYear THEN CorrectedYear
      ELSE p.value

-----------------------------------------------------------------------------
(* is_top_journal, is_top_conference                                        *)

s_arxiv == <<"a","r","x","i","v">>
s_corr == <<"c","o","r","r">>
s_medrxiv == <<"m","e","d","r","x","i","v">>
s_workshop == <<"w","o","r","k","s","h","o","p">>
s_bvm == <<"b","v","m">>
s_bildverarbeitung == <<"b","i","l","d","v","e","r","a","r","b","e","i","t","u","n","g">>
s_rofo == <<"r","o","f","o">>
s_fortschritte == <<"f","o","r","t","s","c","h","r","i","t","t","e">>

JournalExcluded == {s_arxiv, s_corr, s_medrxiv}

\* lines 88-98
is_top_journal(journal_name) ==
  IF journal_name = <<>> THEN FALSE
  ELSE LET journal_lower == Lower(journal_name)
       IN  IF \E exc \in JournalExcluded : Contains(journal_lower, exc)
           THEN FALSE
           ELSE TRUE

ConferenceExcluded ==
  {s_workshop, s_bvm, s_bildverarbeitung, s_rofo, s_fortschritte}

\* the classifier without the medrxiv carve-out of line 108
is_top_conference_plain(venue) ==
  IF venue = <<>> THEN FALSE
  ELSE LET venue_lower == Lower(venue)
       IN  IF Contains(venue_lower, s_arxiv)
           THEN FALSE
           ELSE ~(\E exc \in ConferenceExcluded : Contains(venue_lower, exc))

\* lines 100-110
is_top_conference(venue) ==
  IF venue = <<>> THEN FALSE
  ELSE LET venue_lower == Lower(venue)
       IN  IF Contains(venue_lower, s_arxiv) /\ ~Contains(venue_lower, s_medrxiv)
           THEN FALSE
           ELSE ~(\E exc \in ConferenceExcluded : Contains(venue_lower, exc))

-----------------------------------------------------------------------------
(* format_authors                                                           *)

\* the alternatives of one accent pattern \{?\\<mark>([<letters>])\}? with the
\* character each is replaced by
AccentTable(mark, letters, reps) ==
  {[pat |-> <<"\\">> \o mark \o <<letters[i]>>, rep |-> reps[i]] :
     i \in 1..Len(letters)}

UmlautTable ==
  AccentTable(<<"\"">>, <<"a","o","u","A","O","U">>,
              <<"U+00E4","U+00F6","U+00FC","U+00C4","U+00D6","U+00DC">>)
AcuteTable ==
  AccentTable(<<"'">>, <<"e","a","i","o","u","E","A","I","O","U">>,
              <<"U+00E9","U+00E1","U+00ED","U+00F3","U+00FA",
                "U+00C9","U+00C1","U+00CD","U+00D3","U+00DA">>)
GraveTable ==
  AccentTable(<<"U+0060">>, <<"e","a","i","o","u","E","A","I","O","U">>,
              <<"U+00E8","U+00E0","U+00EC","U+00F2","U+00F9",
                "U+00C8","U+00C0","U+00CC","U+00D2","U+00D9">>)
CircumflexTable ==
  AccentTable(<<"^">>, <<"e","a","i","o","u","E","A","I","O","U">>,
              <<"U+00EA","U+00E2","U+00EE","U+00F4","U+00FB",
                "U+00CA","U+00C2","U+00CE","U+00D4","U+00DB">>)
TildeTable ==
  AccentTable(<<"~">>, <<"n","N","o","O">>,
              <<"U+00F1","U+00D1","U+00F5","U+00D5">>)
CedillaLowerTable == {[pat |-> <<"\\","c"," ","c">>, rep |-> "U+00E7"]}
CedillaUpperTable == {[pat |-> <<"\\","c"," ","C">>, rep |-> "U+00C7"]}
SharpSTable == {[pat |-> <<"\\","s","s">>, rep |-> "U+00DF"]}

\* re.sub of one accent pattern, from index i on: leftmost matches, left to
\* right; the optional braces around the escape are consumed with it
RECURSIVE SubAccent(_, _, _)
SubAccent(s, i, table) ==
  IF i > Len(s) THEN <<>>
  ELSE LET j == IF s[i] = "{" THEN i + 1 ELSE i
           hit == {e \in table : StartsAt(s, j, e.pat)}
       IN  IF hit = {} THEN <<s[i]>> \o SubAccent(s, i + 1, table)
           ELSE LET e == CHOOSE x \in hit : TRUE
                    after == j + Len(e.pat)
                    end == IF after <= Len(s) /\ s[after] = "}"
                           THEN after + 1 ELSE after
                IN  <<e.rep>> \o SubAccent(s, end, table)

\* str.replace(old, new), from index i on
RECURSIVE ReplaceAll(_, _, _, _)
ReplaceAll(s, i, old, new) ==
  IF i > Len(s) THEN <<>>
  ELSE IF StartsAt(s, i, old) THEN new \o ReplaceAll(s, i + Len(old), old, new)
  ELSE <<s[i]>> \o ReplaceAll(s, i + 1, old, new)

s_and == <<" ","a","n","d"," ">>
s_comma == <<","," ">>
s_KainzBernhard == <<"K","a","i","n","z",","," ","B","e","r","n","h","a","r","d">>
s_KainzB == <<"K","a","i","n","z",","," ","B",".">>

\* re.sub(r'Kainz, Bernhard\b', 'Kainz, B.', s), from index i on
RECURSIVE SubKainz(_, _)
SubKainz(s, i) ==
  IF i > Len(s) THEN <<>>
  ELSE LET after == i + Len(s_KainzBernhard)
       IN  IF StartsAt(s, i, s_KainzBernhard)
              /\ (after > Len(s) \/ ~IsWord(s[after]))
           THEN s_KainzB \o SubKainz(s, after)
           ELSE <<s[i]>> \o SubKainz(s, i + 1)

\* lines 118-127: the eight accent substitutions, in the order of the code
DecodeAccents(authors) ==
  LET a1 == SubAccent(authors, 1, UmlautTable)
      a2 == SubAccent(a1, 1, AcuteTable)
      a3 == SubAccent(a2, 1, GraveTable)
      a4 == SubAccent(a3, 1, CircumflexTable)
      a5 == SubAccent(a4, 1, TildeTable)
      a6 == SubAccent(a5, 1, CedillaLowerTable)
      a7 == SubAccent(a6, 1, CedillaUpperTable)
  IN  SubAccent(a7, 1, SharpSTable)

\* lines 112-138
format_authors(authors) ==
  IF authors = <<>> THEN <<>>
  ELSE SubKainz(ReplaceAll(RemoveBraces(DecodeAccents(authors)), 1, s_and, s_comma), 1)

-----------------------------------------------------------------------------
(* format_entry                                                             *)

s_volume == <<"v","o","l","u","m","e">>
s_number == <<"n","u","m","b","e","r">>
s_pages == <<"p","a","g","e","s">>

\* lines 140-214: the list item, as the values its markup is built from, and
\* the is_top flag.  badge is "" when the item carries none.
format_entry(entry, number) ==
  LET fields == entry.fields
      title == RemoveBraces(Get(fields, s_title, s_NoTitle))
      authors == format_authors(Get(fields, s_author, <<>>))
      year == Get(fields, s_year, <<>>)
  IN  IF entry.type = s_article
      THEN LET journal == Get(fields, s_journal, <<>>)
               is_top == is_top_journal(journal)
           IN  [html |-> [tag |-> "li", number |-> number, title |-> title,
                          badge |-> IF is_top THEN "Top Journal" ELSE "",
                          authors |-> authors, venue |-> journal,
                          volume |-> Get(fields, s_volume, <<>>),
                          issue |-> Get(fields, s_number, <<>>),
                          pages |-> Get(fields, s_pages, <<>>),
                          year |-> year],
                is_top |-> is_top]
      ELSE IF entry.type = s_inproceedings
      THEN LET booktitle == Get(fields, s_booktitle, <<>>)
               is_top == is_top_conference(booktitle)
           IN  [html |-> [tag |-> "li", number |-> number, title |-> title,
                          badge |-> IF is_top THEN "Top Conference" ELSE "",
                          authors |-> authors, venue |-> booktitle,
                          volume |-> <<>>, issue |-> <<>>,
                          pages |-> Get(fields, s_pages, <<>>),
                          year |-> year],
                is_top |-> is_top]
      ELSE [html |-> [tag |-> "li", number |-> number, title |-> title,
                      badge |-> "", authors |-> authors, venue |-> <<>>,
                      volume |-> <<>>, issue |-> <<>>, pages |-> <<>>,
                      year |-> year],
            is_top |-> FALSE]

-----------------------------------------------------------------------------
(* The script: parse_bibtex, then generate_publication_list                  *)

\* line 58
IsDuplicate(title, seen) == title # <<>> /\ title \in seen

\* lines 17-69: one iteration of the finditer loop
ParseEntry ==
  /\ pc = "parse"
  /\ NextMatch(content, pos).ok
  /\ \E m \in {NextMatch(content, pos)} :
     \E fields \in {ParseFields(m.body)} :
     \E title \in {NormTitle(fields)} :
     LET entry == [type |-> m.type, key |-> m.key, fields |-> fields]
         dup == IsDuplicate(title, seen_titles)
     IN  /\ pos' = m.end
         /\ matched' = Append(matched, [entry |-> entry, kept |-> ~dup])
         /\ IF dup
            THEN /\ duplicates_count' = duplicates_count + 1
                 /\ UNCHANGED <<entries, seen_titles>>
            ELSE /\ seen_titles' = IF title # <<>> THEN seen_titles \cup {title}
                                   ELSE seen_titles
                 /\ entries' = Append(entries, entry)
                 /\ UNCHANGED duplicates_count
  /\ UNCHANGED <<source, content, pc, renderVars, callVars>>

\* lines 71-74 and 250-251: no further match; the entries go to the renderer
ParseDone ==
  /\ pc = "parse"
  /\ ~NextMatch(content, pos).ok
  /\ pc' = "group"
  /\ UNCHANGED <<parseVars, renderVars, callVars>>

EmptyBuckets == [y \in {} |-> <<>>]

\* an assignment in place of the append: the bucket keeps its last entry only
AppendBucketOverwrite(buckets, year, entry) ==
  [y \in (DOMAIN buckets) \cup {year} |->
     IF y = year THEN <<entry>> ELSE buckets[y]]

\* line 222: by_year[year].append(entry) on a defaultdict(list)
AppendBucket(buckets, year, entry) ==
  [y \in (DOMAIN buckets) \cup {year} |->
     IF y = year
     THEN (IF year \in DOMAIN buckets THEN buckets[year] ELSE <<>>) \o <<entry>>
     ELSE buckets[y]]

\* lines 220-222: one iteration of the grouping loop
GroupEntry ==
  /\ pc = "group"
  /\ gi <= Len(entries)
  /\ by_year' = AppendBucket(by_year, extract_year(entries[gi]), entries[gi])
  /\ gi' = gi + 1
  /\ UNCHANGED <<pc, parseVars, sorted_years, yi, total_pubs, current_number,
                 html, callVars>>

\* the years in ascending order: sorted() without reverse=True
RECURSIVE SortAsc(_)
SortAsc(S) ==
  IF S = {} THEN <<>>
  ELSE LET m == CHOOSE x \in S : \A y \in S : x <= y
       IN  <<m>> \o SortAsc(S \ {m})

\* sorted(years, reverse=True)
RECURSIVE SortDesc(_)
SortDesc(S) ==
  IF S = {} THEN <<>>
  ELSE LET m == CHOOSE x \in S : \A y \in S : y <= x
       IN  <<m>> \o SortDesc(S \ {m})

RECURSIVE SumLen(_, _)
SumLen(buckets, years) ==
  IF years = {} THEN 0
  ELSE LET y == CHOOSE x \in years : TRUE
       IN  Len(buckets[y]) + SumLen(buckets, years \ {y})

\* the total with the sentinel bucket counted too
TotalPubsAll(buckets) == SumLen(buckets, DOMAIN buckets)

\* line 228
TotalPubs(buckets) == SumLen(buckets, {y \in DOMAIN buckets : y # 0})

\* lines 225-231
SortYears ==
  /\ pc = "group"
  /\ gi > Len(entries)
  /\ sorted_years' = SortDesc(DOMAIN by_year)
  /\ total_pubs' = TotalPubs(by_year)
  /\ current_number' = TotalPubs(by_year)
  /\ html' = <<>>
  /\ pc' = "render"
  /\ UNCHANGED <<parseVars, by_year, gi, yi, callVars>>

\* lines 240-243: the items of one bucket, numbered downwards from number
RECURSIVE RenderBucket(_, _)
RenderBucket(bucket, number) ==
  IF bucket = <<>> THEN <<>>
  ELSE <<format_entry(Head(bucket), number).html>>
         \o RenderBucket(Tail(bucket), number - 1)

\* lines 235-236
IsSkipped(year) == year = 0

\* lines 234-245: one iteration of the loop over the years
RenderYear ==
  /\ pc = "render"
  /\ yi <= Len(sorted_years)
  /\ LET year == sorted_years[yi]
     IN  IF IsSkipped(year)
         THEN UNCHANGED <<html, current_number>>
         ELSE /\ html' = html \o <<[tag |-> "h3", year |-> year], [tag |-> "ul"]>>
                           \o RenderBucket(by_year[year], current_number)
                           \o <<[tag |-> "/ul"]>>
              /\ current_number' = current_number - Len(by_year[year])
  /\ yi' = yi + 1
  /\ UNCHANGED <<pc, parseVars, by_year, gi, sorted_years, total_pubs, callVars>>

\* lines 247-257: the output is returned and written
Finish ==
  /\ pc = "render"
  /\ yi > Len(sorted_years)
  /\ pc' = "done"
  /\ UNCHANGED <<parseVars, renderVars, callVars>>

Next == ParseEntry \/ ParseDone \/ GroupEntry \/ SortYears \/ RenderYear \/ Finish

-----------------------------------------------------------------------------
(* The input files                                                          *)

MaxEntries == 4

Header(type, key) == <<"@">> \o type \o <<"{">> \o key \o <<",", "\n">>

BraceField(name, value) ==
  <<" ", " ">> \o name \o <<" ", "=", " ", "{">> \o value \o <<"}", ",", "\n">>

QuoteField(name, value) ==
  <<" ", " ">> \o name \o <<" ", "=", " ", "\"">> \o value \o <<"\"", ",", "\n">>

Closed == <<"}", "\n">>          \* the closing brace at the start of its line
Indented == <<" ", "}", "\n">>   \* a closing brace, not at the start of a line
Unclosed == <<"\n">>             \* no closing brace

\* the text of an entry written from description e; title and year hold the
\* value of the field, or nothing when the entry has no such field
EntryText(e) ==
  Header(e.type, e.key)
    \o (IF e.title = <<>> THEN <<>> ELSE BraceField(s_title, e.title[1]))
    \o (IF e.year = <<>> THEN <<>>
        ELSE IF e.quoted THEN QuoteField(s_year, e.year[1])
        ELSE BraceField(s_year, e.year[1]))
    \o e.closer

RECURSIVE FileText(_)
FileText(es) == IF es = <<>> THEN <<>> ELSE EntryText(Head(es)) \o FileText(Tail(es))

InitFile(Files) ==
  /\ \E es \in Files : source = es /\ content = FileText(es)
  /\ pc = "parse"
  /\ pos = 1
  /\ entries = <<>>
  /\ seen_titles = {}
  /\ duplicates_count = 0
  /\ matched = <<>>
  /\ by_year = EmptyBuckets
  /\ gi = 1
  /\ sorted_years = <<>>
  /\ yi = 1
  /\ total_pubs = 0
  /\ current_number = 0
  /\ html = <<>>
  /\ arg = <<>>
  /\ res = <<>>
  /\ calls = 0

Key(i) == <<"k", Digits[(i % 10) + 1]>>
OwnTitle(i) == <<"T", Digits[(i % 10) + 1]>>
OwnYear(i) == <<"2", "0", "2", Digits[(i % 10) + 1]>>
EntryTypes == <<s_article, s_inproceedings, s_misc>>

\* files whose entries differ in the year field
YearChoices ==
  {[year |-> <<>>, quoted |-> FALSE],
   [year |-> <<<<"1","8","0","4">>>>, quoted |-> FALSE],
   [year |-> <<<<"2","0","1","8">>>>, quoted |-> FALSE],
   [year |-> <<<<"2","0","1","9">>>>, quoted |-> TRUE],
   [year |-> <<<<"2","0","x">>>>, quoted |-> FALSE]}

YearEntry(i, c) ==
  [type |-> EntryTypes[((i - 1) % 3) + 1], key |-> Key(i),
   title |-> <<OwnTitle(i)>>, year |-> c.year, quoted |-> c.quoted,
   closer |-> Closed]

\* files whose entries differ in the case, braces and spaces of the title
TitleChoices ==
  {<<>>, <<<<"A","b">>>>, <<<<"a","{","B","}">>>>, <<<<" ","A","b">>>>,
   <<<<"{"," ","A","b","}">>>>, <<<<"C","d">>>>}

TitleEntry(i, c) ==
  [type |-> s_article, key |-> Key(i), title |-> c, year |-> <<OwnYear(i)>>,
   quoted |-> FALSE, closer |-> Closed]

\* files whose entries differ in how they are closed
CloserChoices ==
  {[year |-> y, closer |-> c] :
     y \in {<<>>, <<<<"2","0","1","9">>>>}, c \in {Closed, Indented, Unclosed}}

CloserEntry(i, c) ==
  [type |-> s_misc, key |-> Key(i), title |-> <<OwnTitle(i)>>, year |-> c.year,
   quoted |-> FALSE, closer |-> c.closer]

\* the files of at most MaxEntries entries, entry i written from a choice
YearFiles ==
  UNION {{[i \in 1..n |-> YearEntry(i, cs[i])] : cs \in [1..n -> YearChoices]} :
           n \in 0..MaxEntries}

TitleFiles ==
  UNION {{[i \in 1..n |-> TitleEntry(i, cs[i])] : cs \in [1..n -> TitleChoices]} :
           n \in 0..MaxEntries}

CloserFiles ==
  UNION {{[i \in 1..n |-> CloserEntry(i, cs[i])] : cs \in [1..n -> CloserChoices]} :
           n \in 0..MaxEntries}

Init == InitFile(YearFiles)
Spec == Init /\ [][Next]_vars

InitDedup == InitFile(TitleFiles)
SpecDedup == InitDedup /\ [][Next]_vars

InitMalformed == InitFile(CloserFiles)
SpecMalformed == InitMalformed /\ [][Next]_vars

-----------------------------------------------------------------------------
(* Functions applied on their own                                           *)

InitCall(Args) ==
  /\ arg \in Args
  /\ res = <<>>
  /\ calls = 0
  /\ pc = "call"
  /\ source = <<>>
  /\ content = <<>>
  /\ pos = 1
  /\ entries = <<>>
  /\ seen_titles = {}
  /\ duplicates_count = 0
  /\ matched = <<>>
  /\ by_year = EmptyBuckets
  /\ gi = 1
  /\ sorted_years = <<>>
  /\ yi = 1
  /\ total_pubs = 0
  /\ current_number = 0
  /\ html = <<>>

\* the strings made of at most n of the given parts
Joined(Parts, n) == {Concat(ps) : ps \in UNION {[1..m -> Parts] : m \in 0..n}}

\* ---- the field scanner, lines 26-54, on one line of an entry body

MaxValueLen == 4

RECURSIVE Depth(_)
Depth(v) ==
  IF v = <<>> THEN 0
  ELSE Depth(Sub(v, 1, Len(v) - 1))
         + (IF v[Len(v)] = "{" THEN 1 ELSE IF v[Len(v)] = "}" THEN 0 - 1 ELSE 0)

\* the braces of v are balanced
Balanced(v) == Depth(v) = 0 /\ \A n \in 1..Len(v) : Depth(Sub(v, 1, n)) >= 0

BalancedValues ==
  {v \in UNION {[1..n -> {"a", " ", "{", "}"}] : n \in 0..MaxValueLen} : Balanced(v)}

\* lines  name = {value}  with the text that may follow the closing brace
FieldLines ==
  {[name |-> n, value |-> v,
    line |-> <<" ", " ">> \o n \o eq \o <<"{">> \o v \o <<"}">> \o t] :
     n \in {s_title, <<"x", "_", "1">>},
     v \in BalancedValues,
     eq \in {<<" ", "=", " ">>, <<"=">>},
     t \in {<<>>, <<",">>, <<"}", ",", " ">>}}

CallParseLine ==
  /\ pc = "call"
  /\ calls = 0
  /\ res' = ParseLine(EmptyFields, arg.line)
  /\ calls' = 1
  /\ UNCHANGED <<arg, pc, parseVars, renderVars>>

InitFields == InitCall(FieldLines)
NextFields == CallParseLine
SpecFields == InitFields /\ [][NextFields]_vars

\* ---- format_entry on an inproceedings record, lines 186-193 and 100-110

MaxVenueParts == 3

VenueParts ==
  {<<"a","r","X","i","v">>, <<"M","e","d">>, <<"R","x","i","v">>, <<"W","o","r","k","s","h","o","p">>, <<"W","O","R","K">>, <<"s","h","o","p">>, <<"B","V","M">>,
   <<"B","i","l","d","v","e","r","a","r","b","e","i","t","u","n","g">>, <<"R","o","F","o">>, <<"F","o","r","t","s","c","h","r","i","t","t","e">>, <<" ">>, <<"I","C","M","L">>}

ConferenceRecords ==
  {[type |-> s_inproceedings, key |-> <<"k">>, fields |-> EmptyFields]}
  \cup {[type |-> s_inproceedings, key |-> <<"k">>,
         fields |-> Put(EmptyFields, s_booktitle, v)] :
          v \in Joined(VenueParts, MaxVenueParts)}

CallFormatEntry ==
  /\ pc = "call"
  /\ calls = 0
  /\ res' = format_entry(arg, 1)
  /\ calls' = 1
  /\ UNCHANGED <<arg, pc, parseVars, renderVars>>

InitConference == InitCall(ConferenceRecords)
NextConference == CallFormatEntry
SpecConference == InitConference /\ [][NextConference]_vars

\* ---- format_authors applied to an author string and again to its result

MaxAuthorParts == 4

AuthorParts ==
  {<<"\\">>, <<"{">>, <<"}">>, <<"\"", "a">>, <<" ","a","n","d"," ">>,
   <<"a","n","d"," ">>, s_KainzBernhard, <<"X">>}

\* res is the list of the results so far
CallFormatAuthors ==
  /\ pc = "call"
  /\ calls < 2
  /\ res' = Append(res, format_authors(IF calls = 0 THEN arg ELSE res[calls]))
  /\ calls' = calls + 1
  /\ UNCHANGED <<arg, pc, parseVars, renderVars>>

InitAuthors == InitCall(Joined(AuthorParts, MaxAuthorParts))
NextAuthors == CallFormatAuthors
SpecAuthors == InitAuthors /\ [][NextAuthors]_vars

-----------------------------------------------------------------------------
(* Properties                                                               *)

Items(h) == SelectSeq(h, LAMBDA x : x.tag = "li")
Headings(h) == SelectSeq(h, LAMBDA x : x.tag = "h3")

\* the list items of the section headed by year y
SectionItems(y) ==
  LET p == CHOOSE i \in 1..Len(html) : html[i].tag = "h3" /\ html[i].year = y
      q == CHOOSE i \in (p + 1)..Len(html) :
             html[i].tag = "/ul" /\ \A r \in (p + 1)..(i - 1) : html[r].tag # "/ul"
  IN  Sub(html, p + 2, q - 1)

\* the year of the heading that list item k stands under
HeadingOf(k) ==
  html[CHOOSE p \in 1..k :
         html[p].tag = "h3" /\ \A r \in (p + 1)..k : html[r].tag # "h3"].year

\* a list item without its sequence number
Unnumbered(item) == [item EXCEPT !.number = 0]

\* the list item of a record, without its sequence number
ItemOf(e) == format_entry(e, 0).html

\* the records of the returned list whose year is y, in the order of the list
RecordsOfYear(y) == SelectSeq(entries, LAMBDA e : extract_year(e) = y)

RawYear(e) == Get(e.fields, s_year, <<>>)

\* C2: a field written on one line as name = {value}, value with balanced
\* nested braces, is stored under name with exactly the text between the
\* opening brace and its matching closing brace, never cut at an inner one.
NestedBraceValueStored ==
  calls = 1 => res = Put(EmptyFields, arg.name, arg.value)

NestedBraceValueWitness ==
  /\ calls = 1
  /\ \E n \in 1..Len(arg.value) : Depth(Sub(arg.value, 1, n)) >= 2
  /\ arg.name \in DOMAIN res
  /\ res[arg.name] = arg.value

\* C3: the year sections stand in strictly descending year order, there is
\* no section for the sentinel year 0, and the records of a section stand in
\* the order they have in the parsed list.
YearSectionsOrdered ==
  LET hs == Headings(html)
  IN  /\ \A i, j \in 1..Len(hs) : i < j => hs[i].year > hs[j].year
      /\ \A i \in 1..Len(hs) : hs[i].year # 0
      /\ \A i \in 1..Len(hs) :
           LET its == SectionItems(hs[i].year)
               rs == RecordsOfYear(hs[i].year)
           IN  /\ Len(its) = Len(rs)
               /\ \A k \in 1..Len(its) : Unnumbered(its[k]) = ItemOf(rs[k])

YearSectionsWitness ==
  /\ pc = "done"
  /\ Len(Headings(html)) >= 2
  /\ \E y \in DOMAIN by_year : y # 0 /\ Len(by_year[y]) >= 2
  /\ 0 \in DOMAIN by_year

\* C4, as claimed: the counter starts at the total count of records, so the
\* first rendered record is numbered with the length of the list, each next
\* one with one less, and the last with 1.
NumberingFromTotalCount ==
  pc = "done" =>
    LET its == Items(html)
    IN  /\ \A k \in 1..Len(its) : its[k].number = Len(entries) - k + 1
        /\ its # <<>> => its[Len(its)].number = 1

\* the records that are rendered: those whose year is not the sentinel 0
RenderedCount == Cardinality({i \in 1..Len(entries) : extract_year(entries[i]) # 0})

\* C4, amended: one counter, started at the number of records whose year is
\* not the sentinel 0, decremented by one per rendered record and never reset
\* at a year boundary: the first record of the highest year receives that
\* number and the last rendered record receives 1.
NumberingFromRenderedCount ==
  pc \in {"render", "done"} =>
    LET its == Items(html)
    IN  /\ total_pubs = RenderedCount
        /\ \A k \in 1..Len(its) : its[k].number = RenderedCount - k + 1
        /\ current_number = RenderedCount - Len(its)
        /\ pc = "done" => Len(its) = RenderedCount /\ current_number = 0

NumberingWitness ==
  /\ pc = "done"
  /\ 0 \in DOMAIN by_year
  /\ Len(Headings(html)) >= 2
  /\ Items(html)[1].number = RenderedCount
  /\ Items(html)[1].number < Len(entries)
  /\ Items(html)[Len(Items(html))].number = 1

\* C5: for an inproceedings record the tier is decided without regard to
\* letter case: a venue with 'workshop' is never top-tier, a venue with
\* 'arxiv' and without 'medrxiv' is never top-tier, a venue with 'medrxiv' and
\* none of the excluded tokens is top-tier, an empty venue is never top-tier;
\* the badge is there exactly when the record is top-tier.
ConferenceTierRules ==
  calls = 1 =>
    LET venue == Get(arg.fields, s_booktitle, <<>>)
        l == Lower(venue)
    IN  /\ Contains(l, s_workshop) => ~res.is_top
        /\ (Contains(l, s_arxiv) /\ ~Contains(l, s_medrxiv)) => ~res.is_top
        /\ (Contains(l, s_medrxiv)
              /\ \A exc \in ConferenceExcluded : ~Contains(l, exc)) => res.is_top
        /\ venue = <<>> => ~res.is_top
        /\ res.is_top <=> res.html.badge = "Top Conference"

ConferenceTierWitness ==
  /\ calls = 1
  /\ s_booktitle \in DOMAIN arg.fields
  /\ arg.fields[s_booktitle] # Lower(arg.fields[s_booktitle])
  /\ Contains(Lower(arg.fields[s_booktitle]), s_medrxiv)
  /\ Contains(Lower(arg.fields[s_booktitle]), s_arxiv)
  /\ res.is_top

s_1804 == <<"1", "8", "0", "4">>

\* C6: a record whose year field is the literal 1804 has extract_year 2018,
\* is placed in the 2018 bucket and rendered under the 2018 heading, and there
\* is no 1804 bucket and no 1804 section.
MalformedYearCorrected ==
  /\ \A i \in 1..Len(entries) :
       RawYear(entries[i]) = s_1804 =>
         /\ extract_year(entries[i]) = 2018
         /\ (pc \in {"group", "render", "done"} /\ i < gi) =>
              /\ 2018 \in DOMAIN by_year
              /\ \E j \in 1..Len(by_year[2018]) : by_year[2018][j] = entries[i]
         /\ pc = "done" =>
              \E k \in 1..Len(html) :
                /\ html[k].tag = "li"
                /\ Unnumbered(html[k]) = ItemOf(entries[i])
                /\ HeadingOf(k) = 2018
  /\ 1804 \notin DOMAIN by_year
  /\ \A k \in 1..Len(html) : html[k].tag = "h3" => html[k].year # 1804

MalformedYearWitness ==
  /\ pc = "done"
  /\ \E i, j \in 1..Len(entries) :
       /\ RawYear(entries[i]) = s_1804
       /\ RawYear(entries[j]) = <<"2", "0", "1", "8">>
       /\ Len(SectionItems(2018)) >= 2

\* C7: every record of the list is in exactly one year bucket, the bucket of
\* its extract_year (the sentinel bucket 0 included), and the bucket sizes add
\* up to the number of records.
BucketsPartitionRecords ==
  /\ pc = "group" => SumLen(by_year, DOMAIN by_year) = gi - 1
  /\ pc \in {"render", "done"} =>
       /\ SumLen(by_year, DOMAIN by_year) = Len(entries)
       /\ \A i \in 1..Len(entries) :
            LET places == {p \in (DOMAIN by_year) \X (1..Len(entries)) :
                             /\ p[2] <= Len(by_year[p[1]])
                             /\ by_year[p[1]][p[2]] = entries[i]}
            IN  /\ Cardinality(places) = 1
                /\ \A p \in places : p[1] = extract_year(entries[i])

BucketsPartitionWitness ==
  /\ pc = "render"
  /\ 0 \in DOMAIN by_year
  /\ \E y \in DOMAIN by_year : y # 0 /\ Len(by_year[y]) >= 2

\* the normalized title as the specification words it: lower-cased, braces
\* stripped, leading and trailing whitespace trimmed
TrimmedTitle(e) == Strip(RemoveBraces(Lower(Get(e.fields, s_title, <<>>))))

\* C1: of two matched entries with the same non-empty normalized title, the
\* later one is not returned, and the first entry with that title is returned
\* with its own fields.
DuplicateTitlesKeepFirst ==
  pc # "parse" =>
    \A i, j \in 1..Len(matched) :
      (/\ i < j
       /\ TrimmedTitle(matched[i].entry) # <<>>
       /\ TrimmedTitle(matched[i].entry) = TrimmedTitle(matched[j].entry)) =>
        /\ ~matched[j].kept
        /\ (\A h \in 1..(i - 1) :
              TrimmedTitle(matched[h].entry) # TrimmedTitle(matched[i].entry)) =>
             /\ matched[i].kept
             /\ \E k \in 1..Len(entries) : entries[k] = matched[i].entry

\* C8: normalizing an already normalized author string changes nothing.
FormatAuthorsIdempotent == calls = 2 => res[2] = res[1]

\* the record an entry of the file stands for
RecordOf(e) ==
  LET f1 == IF e.title = <<>> THEN EmptyFields
            ELSE Put(EmptyFields, s_title, e.title[1])
  IN  [type |-> e.type, key |-> e.key,
       fields |-> IF e.year = <<>> THEN f1 ELSE Put(f1, s_year, e.year[1])]

RECURSIVE RecordsOf(_)
RecordsOf(es) ==
  IF es = <<>> THEN <<>> ELSE <<RecordOf(Head(es))>> \o RecordsOf(Tail(es))

\* C9: an entry without a closing brace at the start of its own line is
\* skipped: the returned records are exactly those of the well-formed
\* entries, each with only its own fields.
MalformedEntriesSkipped ==
  pc # "parse" =>
    entries = RecordsOf(SelectSeq(source, LAMBDA e : e.closer = Closed))

\* C10: the year printed in a list item denotes the year of the heading the
\* item stands under.
ItemYearMatchesHeading ==
  \A k \in 1..Len(html) :
    html[k].tag = "li" =>
      /\ IntParse(html[k].year).ok
      /\ IntParse(html[k].year).value = HeadingOf(k)

====
